---- MODULE Spec2Model ----
(***************************************************************************)
(* A model of the LC-3 virtual machine of lc3rs (src/src/vm.rs): the       *)
(* memory and register accessors, the plugin notification round with its   *)
(* detach/reattach reentrancy guard, load_program, update_flags and the    *)
(* fetch-execute loop of run.                                              *)
(*                                                                         *)
(* The VM is the record                                                    *)
(*   [memory, registers, running, io_handle, plugins, ...ghost fields]     *)
(* and every method of VM is an operator from a VM record (and arguments)  *)
(* to [vm |-> the VM afterwards, res |-> the LC3Result returned].          *)
(* A top-level call of a method is one action.                             *)
(***************************************************************************)
EXTENDS Integers, Sequences, FiniteSets, TLC

VARIABLES
    memory,        \* VM.memory, kept as its nonzero cells (see MemAt)
    registers,     \* VM.registers
    running,       \* VM.running
    io_handle,     \* VM.io_handle (a scripted I/O capability)
    plugins,       \* VM.plugins : Option<Vec<Box<dyn Plugin>>>
    pc,            \* position of the caller: "idle", "loop" (inside run), "panicked"
    calls,         \* number of top-level calls made so far
    iters,         \* number of iterations of run's loop made in the current run
    last,          \* the last top-level call: its name, arguments and result
    added,         \* ghost: the plugins passed to add_plugin so far, in order
    rounds,        \* ghost: events that started a notification round in the last call
    log,           \* ghost: deliveries to plugins in the last call
    nrounds,       \* ghost: number of rounds started in the last call
    ndeliv,        \* ghost: number of deliveries in the last call
    dispatch       \* ghost: the opcode dispatches of the last call, with the PC then

vars == <<memory, registers, running, io_handle, plugins,
          pc, calls, iters, last, added, rounds, log, nrounds, ndeliv, dispatch>>

----------------------------------------------------------------------------
(* Program constants *)

MEMORY_SIZE == 65536
PC_START == 12288
KB_STATUS_POS == 65024
KB_DATA_POS == 65026
NUM_REGISTERS == 10
RPC == 8
RCond == 9
FL_POS == 1
FL_ZRO == 2
FL_NEG == 4
KB_READY == 32768

(* Bounds of the model *)

MaxCalls == 2
MaxPlugins == 2
LogCap == 24
MaxIters == 6
MaxBigLoadPlugins == 1

(* Values the environment uses *)

Poison == 57005      \* the value the failing plugin rejects

Word == 0..(MEMORY_SIZE - 1)

----------------------------------------------------------------------------
(* 16-bit arithmetic *)

Wrap16(n) == n % MEMORY_SIZE

\* a u16 addition: the wrapped sum, and whether it overflowed
AddU16(a, b) == [val |-> Wrap16(a + b), overflow |-> a + b >= MEMORY_SIZE]

\* `ch as u16` for a char given by its code point
CharAsU16(ch) == ch % MEMORY_SIZE

\* value >> 15 for a u16
Shr15(value) == value \div 32768

----------------------------------------------------------------------------
(* LC3Result *)

Ok(v) == [ok |-> TRUE, val |-> v, err |-> "none"]
Err(e) == [ok |-> FALSE, val |-> <<>>, err |-> e]
Unit == <<>>

----------------------------------------------------------------------------
(* memory: [u16; MEMORY_SIZE], zero-initialised.  The array is held as the *)
(* function of its nonzero cells; MemAt is the array's value at an index.  *)

ZeroMemory == [a \in {} |-> 0]

MemAt(m, a) == IF a \in DOMAIN m THEN m[a] ELSE 0

MemStore(m, a, v) ==
    IF v = 0
    THEN [x \in (DOMAIN m) \ {a} |-> m[x]]
    ELSE [x \in (DOMAIN m) \cup {a} |-> IF x = a THEN v ELSE m[x]]

----------------------------------------------------------------------------
(* plugins: Option<Vec<..>> *)

None == [tag |-> "None", vec |-> <<>>]
Some(v) == [tag |-> "Some", vec |-> v]

----------------------------------------------------------------------------
(* Events (plugin::Event) *)

MemGet(location, value) == [type |-> "MemGet", location |-> location, value |-> value]
MemSet(location, value) == [type |-> "MemSet", location |-> location, value |-> value]
RegGet(index, value) == [type |-> "RegGet", index |-> index, value |-> value]
RegSet(index, value) == [type |-> "RegSet", index |-> index, value |-> value]
RunningGet(value) == [type |-> "RunningGet", value |-> value]
RunningSet(value) == [type |-> "RunningSet", value |-> value]
CharGet(ch) == [type |-> "CharGet", ch |-> ch]
CharPut(ch) == [type |-> "CharPut", ch |-> ch]
KeyDownGet(value) == [type |-> "KeyDownGet", value |-> value]
CommandEvent(bytes) == [type |-> "Command", bytes |-> bytes]

----------------------------------------------------------------------------
(* The I/O capability (io::IOHandle), scripted: the answers is_key_down    *)
(* will give, the characters getchar will return, and what putchar got.    *)
(* A script that has run out is an I/O failure.                            *)

NewIO(keydowns, keys) ==
    [keydown_responses |-> keydowns, key_presses |-> keys, outputs |-> <<>>]

IoIsKeyDown(io) ==
    IF io.keydown_responses = <<>>
    THEN [io |-> io, res |-> Err("IO")]
    ELSE [io |-> [io EXCEPT !.keydown_responses = Tail(@)],
          res |-> Ok(Head(io.keydown_responses))]

IoGetchar(io) ==
    IF io.key_presses = <<>>
    THEN [io |-> io, res |-> Err("IO")]
    ELSE [io |-> [io EXCEPT !.key_presses = Tail(@)],
          res |-> Ok(Head(io.key_presses))]

IoPutchar(io, ch) ==
    [io |-> [io EXCEPT !.outputs = Append(@, ch)], res |-> Ok(Unit)]

----------------------------------------------------------------------------
(* Ghost bookkeeping of what the plugin bus did during one top-level call  *)

\* what a handler can read of the VM while it handles `event`
Seen(vm, event) ==
    [cell |-> CASE event.type \in {"MemGet", "MemSet"} -> MemAt(vm.memory, event.location)
                [] event.type \in {"RegGet", "RegSet"} -> vm.registers[event.index]
                [] event.type \in {"RunningGet", "RunningSet"} -> vm.running
                [] event.type = "Command" ->
                       [memory |-> vm.memory, registers |-> vm.registers,
                        running |-> vm.running, outputs |-> vm.io_handle.outputs]
                [] OTHER -> <<>>,
     pc |-> vm.registers[RPC],
     kb_data |-> MemAt(vm.memory, KB_DATA_POS),
     attached |-> vm.plugins.tag = "Some"]

\* the logs keep their first LogCap entries; the counters count them all
CapAppend(s, e) == IF Len(s) < LogCap THEN Append(s, e) ELSE s

RecordRound(vm, event) ==
    [vm EXCEPT !.rounds = CapAppend(@, event), !.nrounds = @ + 1]

\* a plugin of this kind is passed to add_plugin
RecordAdd(vm, kind) == [vm EXCEPT !.added = Append(@, kind)]

RecordDelivery(vm, i, kind, event) ==
    IF Len(vm.log) < LogCap
    THEN [vm EXCEPT !.log = Append(@, [plugin |-> i, kind |-> kind, event |-> event,
                                       round |-> vm.nrounds, seen |-> Seen(vm, event)]),
                    !.ndeliv = @ + 1]
    ELSE [vm EXCEPT !.ndeliv = @ + 1]

----------------------------------------------------------------------------
(* notify_plugins and the accessors                                        *)

\* `?` : r's VM and value passed on to F, unless r is an error, which is
\* returned at once
Then(r, F(_, _)) == IF ~r.res.ok THEN r ELSE F(r.vm, r.res.val)

\* Ok(val), leaving the VM as vm
Return(vm, val) == [vm |-> vm, res |-> Ok(val)]

\* Err(e), leaving the VM as vm
Fail(vm, e) == [vm |-> vm, res |-> Err(e)]

\* a call of the I/O capability that leaves it as r.io
WithIO(vm, r) == [vm |-> [vm EXCEPT !.io_handle = r.io], res |-> r.res]

RECURSIVE NotifyPlugins(_, _)

\* a mem_write that stores first and announces afterwards
MemWriteStoreFirst(vm, pos, val) ==
    Then(NotifyPlugins([vm EXCEPT !.memory = MemStore(@, pos, val)], MemSet(pos, val)),
         LAMBDA v1, u : Return(v1, Unit))

\* VM::mem_write
MemWrite(vm, pos, val) ==
    Then(NotifyPlugins(vm, MemSet(pos, val)), LAMBDA v1, u :
        Return([v1 EXCEPT !.memory = MemStore(@, pos, val)], Unit))

\* VM::reg_index_read
RegIndexRead(vm, index) ==
    Then(NotifyPlugins(vm, RegGet(index, vm.registers[index])), LAMBDA v1, u :
        Return(v1, vm.registers[index]))

\* VM::reg_index_write
RegIndexWrite(vm, index, val) ==
    Then(NotifyPlugins(vm, RegSet(index, val)), LAMBDA v1, u :
        Return([v1 EXCEPT !.registers[index] = val], Unit))

\* VM::reg_read, VM::reg_write (Register::to_u8 is the register's index)
RegRead(vm, reg) == RegIndexRead(vm, reg)
RegWrite(vm, reg, val) == RegIndexWrite(vm, reg, val)

\* VM::putchar
Putchar(vm, ch) ==
    Then(NotifyPlugins(vm, CharPut(ch)), LAMBDA v1, u :
        WithIO(v1, IoPutchar(v1.io_handle, ch)))

\* VM::getchar
Getchar(vm) ==
    Then(WithIO(vm, IoGetchar(vm.io_handle)), LAMBDA v1, ch :
        Then(NotifyPlugins(v1, CharGet(ch)), LAMBDA v2, u : Return(v2, ch)))

\* VM::is_key_down
IsKeyDown(vm) ==
    Then(WithIO(vm, IoIsKeyDown(vm.io_handle)), LAMBDA v1, key_down :
        Then(NotifyPlugins(v1, KeyDownGet(key_down)), LAMBDA v2, u :
            Return(v2, key_down)))

\* VM::get_running
GetRunning(vm) ==
    Then(NotifyPlugins(vm, RunningGet(vm.running)), LAMBDA v1, u :
        Return(v1, vm.running))

\* VM::set_running
SetRunning(vm, val) ==
    Then(NotifyPlugins(vm, RunningSet(val)), LAMBDA v1, u :
        Return([v1 EXCEPT !.running = val], Unit))

\* a key-down branch that puts the character into the status cell
KbKeyDownIntoStatus(vm) ==
    Then(MemWrite(vm, KB_STATUS_POS, KB_READY), LAMBDA v1, u :
        Then(Getchar(v1), LAMBDA v2, ch :
            MemWrite(v2, KB_STATUS_POS, CharAsU16(ch))))

\* the key-down branch of VM::mem_read (lines 104-106)
KbKeyDown(vm) ==
    Then(MemWrite(vm, KB_STATUS_POS, KB_READY), LAMBDA v1, u :
        Then(Getchar(v1), LAMBDA v2, ch :
            MemWrite(v2, KB_DATA_POS, CharAsU16(ch))))

\* the device-register prelude of VM::mem_read (lines 96-110)
KbStatusPoll(vm) ==
    Then(IsKeyDown(vm), LAMBDA v1, key_down :
        IF key_down THEN KbKeyDown(v1) ELSE MemWrite(v1, KB_STATUS_POS, 0))

\* the fetch-and-notify tail of VM::mem_read (lines 112-117)
MemFetch(vm, pos) ==
    Then(NotifyPlugins(vm, MemGet(pos, MemAt(vm.memory, pos))), LAMBDA v1, u :
        Return(v1, MemAt(vm.memory, pos)))

\* VM::mem_read
MemRead(vm, pos) ==
    IF pos = KB_STATUS_POS
    THEN Then(KbStatusPoll(vm), LAMBDA v1, u : MemFetch(v1, pos))
    ELSE MemFetch(vm, pos)

\* VM::add_plugin
AddPluginTo(vm, plugin) ==
    IF vm.plugins.tag = "Some"
    THEN [vm EXCEPT !.plugins = Some(Append(vm.plugins.vec, plugin))]
    ELSE vm

----------------------------------------------------------------------------
(* Plugins (plugin::Plugin implementations): what handle_event does.       *)
(*   Observer  only looks                                                  *)
(*   Writer    reacts to a write event by writing itself: on a write of    *)
(*             register 0 it writes the value to register 1; on a write of *)
(*             another register, of a memory cell or of the running flag   *)
(*             it writes a different value to that same cell               *)
(*   Failer    returns an error on an event carrying the value Poison      *)
(*   Stopper   sets the running flag to false when an instruction is       *)
(*             announced                                                   *)
(*   Adder     passes an observer to add_plugin when the running flag is   *)
(*             about to be written                                         *)

PluginKinds == {"Observer", "Writer", "Failer"}

HandleEvent(kind, vm, event) ==
    CASE kind = "Writer" /\ event.type = "RegSet" /\ event.index = 0 ->
            RegIndexWrite(vm, 1, event.value)
      [] kind = "Writer" /\ event.type = "RegSet" /\ event.index # 0 ->
            RegIndexWrite(vm, event.index, Wrap16(event.value + 1))
      [] kind = "Writer" /\ event.type = "MemSet" ->
            MemWrite(vm, event.location, Wrap16(event.value + 1))
      [] kind = "Writer" /\ event.type = "RunningSet" ->
            SetRunning(vm, ~event.value)
      [] kind = "Failer" /\ event.type \in {"MemGet", "MemSet", "RegGet", "RegSet"}
                         /\ event.value = Poison ->
            Fail(vm, "Plugin")
      [] kind = "Stopper" /\ event.type = "Command" ->
            SetRunning(vm, FALSE)
      [] kind = "Adder" /\ event.type = "RunningSet" ->
            Return(AddPluginTo(RecordAdd(vm, "Observer"), "Observer"), Unit)
      [] OTHER -> Return(vm, Unit)

\* the loop of notify_plugins (lines 231-233) from the i-th plugin on
RECURSIVE DeliverFrom(_, _, _, _)
DeliverFrom(vm, vec, i, event) ==
    IF i > Len(vec) THEN Return(vm, Unit)
    ELSE Then(HandleEvent(vec[i], RecordDelivery(vm, i, vec[i], event), event),
              LAMBDA v1, u : DeliverFrom(v1, vec, i + 1, event))

\* VM::notify_plugins: vm.plugins is taken out of the VM for the round and
\* put back after the loop
NotifyPlugins(vm, event) ==
    IF vm.plugins.tag = "None"
    THEN Return(vm, Unit)
    ELSE Then(DeliverFrom(RecordRound([vm EXCEPT !.plugins = None], event),
                          vm.plugins.vec, 1, event),
              LAMBDA v1, u : Return([v1 EXCEPT !.plugins = Some(vm.plugins.vec)], Unit))

----------------------------------------------------------------------------
(* update_flags and load_program                                           *)

\* a choice of flag that takes 0x8000 for positive
CondFlagAbove(value) ==
    IF value = 0 THEN FL_ZRO
    ELSE IF value > 32768 THEN FL_NEG
    ELSE FL_POS

\* the flag update_flags chooses for a register value (lines 183-189)
CondFlag(value) ==
    IF value = 0 THEN FL_ZRO
    ELSE IF Shr15(value) = 1 THEN FL_NEG
    ELSE FL_POS

\* VM::update_flags
UpdateFlags(vm, register_index) ==
    Then(RegIndexRead(vm, register_index), LAMBDA v1, value :
        RegWrite(v1, RCond, CondFlag(value)))

\* max_len of VM::load_program
MaxProgramLen == MEMORY_SIZE - PC_START

\* a load address one cell too high
LoadAddressOneUp(vm, index, checks) ==
    IF AddU16(PC_START + 1, Wrap16(index)).overflow /\ checks
    THEN Fail(vm, "Panic")
    ELSE Return(vm, AddU16(PC_START + 1, Wrap16(index)).val)

\* PC_START + index as u16 (line 88): `checks` is the build's overflow
\* checking; an overflowing u16 addition panics with it, wraps without it
LoadAddress(vm, index, checks) ==
    IF AddU16(PC_START, Wrap16(index)).overflow /\ checks
    THEN Fail(vm, "Panic")
    ELSE Return(vm, AddU16(PC_START, Wrap16(index)).val)

\* one turn of the loop of load_program (line 88), index counted from 0
LoadWord(vm, program, index, checks) ==
    Then(LoadAddress(vm, index, checks), LAMBDA v1, addr :
        MemWrite(v1, addr, program[index + 1]))

\* the loop of load_program (lines 87-89) over the indices lo .. hi-1, left
\* to right, returning at the first error
RECURSIVE LoadRange(_, _, _, _, _)
LoadRange(vm, program, lo, hi, checks) ==
    IF lo >= hi THEN Return(vm, Unit)
    ELSE IF hi = lo + 1 THEN LoadWord(vm, program, lo, checks)
    ELSE Then(LoadRange(vm, program, lo, (lo + hi) \div 2, checks), LAMBDA v1, u :
            LoadRange(v1, program, (lo + hi) \div 2, hi, checks))

\* a load_program whose size check lets one word too many through
LoadProgramOneMore(vm, program, checks) ==
    IF Len(program) > MaxProgramLen + 1
    THEN Fail(vm, "ProgramSize")
    ELSE LoadRange(vm, program, 0, Len(program), checks)

\* VM::load_program
LoadProgram(vm, program, checks) ==
    IF Len(program) > MaxProgramLen
    THEN Fail(vm, "ProgramSize")
    ELSE LoadRange(vm, program, 0, Len(program), checks)

----------------------------------------------------------------------------
(* Instruction words (command::Command) and the opcode handlers            *)
(* (op::handler, trap): the LC-3 instruction set as the specification      *)
(* describes it.                                                           *)

Pow2(n) == 2 ^ n

\* the n bits of w from bit lo upwards
Bits(w, lo, n) == (w \div Pow2(lo)) % Pow2(n)

\* widen the two's-complement n-bit field x to 16 bits
SignExtend(x, n) == IF Bits(x, n - 1, 1) = 1 THEN Wrap16(x + MEMORY_SIZE - Pow2(n)) ELSE x

RECURSIVE BitAnd(_, _, _)
BitAnd(a, b, n) ==
    IF n = 0 THEN 0 ELSE (a % 2) * (b % 2) + 2 * BitAnd(a \div 2, b \div 2, n - 1)

BitNot(a) == MEMORY_SIZE - 1 - a

OpCode(w) == Bits(w, 12, 4)

\* write val to register dr and update the flags from it
SetRegWithFlags(vm, dr, val) ==
    Then(RegIndexWrite(vm, dr, val), LAMBDA v1, u : UpdateFlags(v1, dr))

\* PC + the sign-extended n-bit offset of w
PcOffset(vm, w, n) ==
    Then(RegRead(vm, RPC), LAMBDA v1, pcv :
        Return(v1, Wrap16(pcv + SignExtend(Bits(w, 0, n), n))))

\* base register (bits 8..6) + the sign-extended 6-bit offset
BaseOffset(vm, w) ==
    Then(RegIndexRead(vm, Bits(w, 6, 3)), LAMBDA v1, base :
        Return(v1, Wrap16(base + SignExtend(Bits(w, 0, 6), 6))))

\* the second operand of ADD and AND
Operand2(vm, w) ==
    IF Bits(w, 5, 1) = 1
    THEN Return(vm, SignExtend(Bits(w, 0, 5), 5))
    ELSE RegIndexRead(vm, Bits(w, 0, 3))

OpBranch(vm, w) ==
    Then(RegRead(vm, RCond), LAMBDA v1, cond :
        IF BitAnd(Bits(w, 9, 3), cond, 3) # 0
        THEN Then(PcOffset(v1, w, 9), LAMBDA v2, target : RegWrite(v2, RPC, target))
        ELSE Return(v1, Unit))

OpAdd(vm, w) ==
    Then(RegIndexRead(vm, Bits(w, 6, 3)), LAMBDA v1, a :
        Then(Operand2(v1, w), LAMBDA v2, b :
            SetRegWithFlags(v2, Bits(w, 9, 3), Wrap16(a + b))))

OpAnd(vm, w) ==
    Then(RegIndexRead(vm, Bits(w, 6, 3)), LAMBDA v1, a :
        Then(Operand2(v1, w), LAMBDA v2, b :
            SetRegWithFlags(v2, Bits(w, 9, 3), BitAnd(a, b, 16))))

OpNot(vm, w) ==
    Then(RegIndexRead(vm, Bits(w, 6, 3)), LAMBDA v1, a :
        SetRegWithFlags(v1, Bits(w, 9, 3), BitNot(a)))

OpLoad(vm, w) ==
    Then(PcOffset(vm, w, 9), LAMBDA v1, addr :
        Then(MemRead(v1, addr), LAMBDA v2, val :
            SetRegWithFlags(v2, Bits(w, 9, 3), val)))

OpLoadIndirect(vm, w) ==
    Then(PcOffset(vm, w, 9), LAMBDA v1, addr :
        Then(MemRead(v1, addr), LAMBDA v2, ptr :
            Then(MemRead(v2, ptr), LAMBDA v3, val :
                SetRegWithFlags(v3, Bits(w, 9, 3), val))))

OpLoadRegister(vm, w) ==
    Then(BaseOffset(vm, w), LAMBDA v1, addr :
        Then(MemRead(v1, addr), LAMBDA v2, val :
            SetRegWithFlags(v2, Bits(w, 9, 3), val)))

OpLoadEffectiveAddress(vm, w) ==
    Then(PcOffset(vm, w, 9), LAMBDA v1, addr :
        SetRegWithFlags(v1, Bits(w, 9, 3), addr))

OpStore(vm, w) ==
    Then(PcOffset(vm, w, 9), LAMBDA v1, addr :
        Then(RegIndexRead(v1, Bits(w, 9, 3)), LAMBDA v2, val :
            MemWrite(v2, addr, val)))

OpStoreIndirect(vm, w) ==
    Then(PcOffset(vm, w, 9), LAMBDA v1, addr :
        Then(MemRead(v1, addr), LAMBDA v2, ptr :
            Then(RegIndexRead(v2, Bits(w, 9, 3)), LAMBDA v3, val :
                MemWrite(v3, ptr, val))))

OpStoreRegister(vm, w) ==
    Then(BaseOffset(vm, w), LAMBDA v1, addr :
        Then(RegIndexRead(v1, Bits(w, 9, 3)), LAMBDA v2, val :
            MemWrite(v2, addr, val)))

OpJump(vm, w) ==
    Then(RegIndexRead(vm, Bits(w, 6, 3)), LAMBDA v1, target :
        RegWrite(v1, RPC, target))

OpJumpRegister(vm, w) ==
    Then(RegRead(vm, RPC), LAMBDA v1, pcv :
        Then(RegIndexWrite(v1, 7, pcv), LAMBDA v2, u :
            IF Bits(w, 11, 1) = 1
            THEN RegWrite(v2, RPC, Wrap16(pcv + SignExtend(Bits(w, 0, 11), 11)))
            ELSE OpJump(v2, w)))

\* TRAP PUTS: the characters from addr on, one per word, up to a zero word
RECURSIVE PutString(_, _)
PutString(vm, addr) ==
    Then(MemRead(vm, addr), LAMBDA v1, ch :
        IF ch = 0 THEN Return(v1, Unit)
        ELSE Then(Putchar(v1, ch), LAMBDA v2, u : PutString(v2, Wrap16(addr + 1))))

\* TRAP PUTSP: two characters per word, low byte first
RECURSIVE PutPacked(_, _)
PutPacked(vm, addr) ==
    Then(MemRead(vm, addr), LAMBDA v1, wd :
        IF wd = 0 THEN Return(v1, Unit)
        ELSE Then(Putchar(v1, Bits(wd, 0, 8)), LAMBDA v2, u :
                IF Bits(wd, 8, 8) = 0 THEN Return(v2, Unit)
                ELSE Then(Putchar(v2, Bits(wd, 8, 8)), LAMBDA v3, u2 :
                        PutPacked(v3, Wrap16(addr + 1)))))

OpTrap(vm, w) ==
    LET vector == Bits(w, 0, 8)
    IN  CASE vector = 32 ->      \* GETC
                Then(Getchar(vm), LAMBDA v1, ch : RegIndexWrite(v1, 0, CharAsU16(ch)))
          [] vector = 33 ->      \* OUT
                Then(RegIndexRead(vm, 0), LAMBDA v1, val : Putchar(v1, Bits(val, 0, 8)))
          [] vector = 34 ->      \* PUTS
                Then(RegIndexRead(vm, 0), LAMBDA v1, addr : PutString(v1, addr))
          [] vector = 35 ->      \* IN
                Then(Getchar(vm), LAMBDA v1, ch :
                    Then(Putchar(v1, ch), LAMBDA v2, u :
                        RegIndexWrite(v2, 0, CharAsU16(ch))))
          [] vector = 36 ->      \* PUTSP
                Then(RegIndexRead(vm, 0), LAMBDA v1, addr : PutPacked(v1, addr))
          [] vector = 37 ->      \* HALT
                SetRunning(vm, FALSE)
          [] OTHER -> Fail(vm, "UnknownTrap")

\* the match of VM::run_command (lines 246-264)
Dispatch(vm, w) ==
    LET op == OpCode(w)
    IN  CASE op = 0 -> OpBranch(vm, w)
          [] op = 1 -> OpAdd(vm, w)
          [] op = 2 -> OpLoad(vm, w)
          [] op = 3 -> OpStore(vm, w)
          [] op = 4 -> OpJumpRegister(vm, w)
          [] op = 5 -> OpAnd(vm, w)
          [] op = 6 -> OpLoadRegister(vm, w)
          [] op = 7 -> OpStoreRegister(vm, w)
          [] op = 8 -> Fail(vm, "Unimplemented")
          [] op = 9 -> OpNot(vm, w)
          [] op = 10 -> OpLoadIndirect(vm, w)
          [] op = 11 -> OpStoreIndirect(vm, w)
          [] op = 12 -> OpJump(vm, w)
          [] op = 13 -> Fail(vm, "Unimplemented")
          [] op = 14 -> OpLoadEffectiveAddress(vm, w)
          [] OTHER -> OpTrap(vm, w)

\* ghost: note the dispatch of w and the PC the handler starts with
RecordDispatch(vm, w) ==
    [vm EXCEPT !.dispatch = CapAppend(@, [bytes |-> w, pc |-> vm.registers[RPC]])]

\* a run_command that announces the instruction after carrying it out
RunCommandLate(vm, w) ==
    Then(Dispatch(RecordDispatch(vm, w), w), LAMBDA v1, u :
        NotifyPlugins(v1, CommandEvent(w)))

\* VM::run_command
RunCommand(vm, w) ==
    Then(NotifyPlugins(vm, CommandEvent(w)), LAMBDA v1, u :
        Dispatch(RecordDispatch(v1, w), w))

----------------------------------------------------------------------------
(* run                                                                     *)

\* a start of run that leaves the PC where it is
RunStartNoPC(vm) ==
    Then(SetRunning(vm, TRUE), LAMBDA v1, u : Return(v1, Unit))

\* lines 63-64 of VM::run
RunStart(vm) ==
    Then(SetRunning(vm, TRUE), LAMBDA v1, u : RegWrite(v1, RPC, PC_START))

\* program_count + 1 (line 68); `checks` as in LoadAddress
NextCount(vm, program_count, checks) ==
    IF AddU16(program_count, 1).overflow /\ checks
    THEN Fail(vm, "Panic")
    ELSE Return(vm, AddU16(program_count, 1).val)

\* a loop body that fetches at the incremented PC
RunBodyFetchNext(vm, checks) ==
    Then(RegRead(vm, RPC), LAMBDA v1, program_count :
        Then(NextCount(v1, program_count, checks), LAMBDA v2, next_count :
            Then(RegWrite(v2, RPC, next_count), LAMBDA v3, u :
                Then(MemRead(v3, next_count), LAMBDA v4, word :
                    RunCommand(v4, word)))))

\* the body of the loop of VM::run (lines 67-71)
RunBody(vm, checks) ==
    Then(RegRead(vm, RPC), LAMBDA v1, program_count :
        Then(NextCount(v1, program_count, checks), LAMBDA v2, next_count :
            Then(RegWrite(v2, RPC, next_count), LAMBDA v3, u :
                Then(MemRead(v3, program_count), LAMBDA v4, word :
                    RunCommand(v4, word)))))

\* a turn after which run goes on although the turn ended in an error
TurnOnward(r, continue) == [vm |-> r.vm, res |-> r.res, continue |-> continue]

\* what a turn of the loop leaves: `continue` tells whether run goes on to
\* another turn; when it does not, res is what run returns
Turn(r, continue) == [vm |-> r.vm, res |-> r.res, continue |-> continue /\ r.res.ok]

\* a loop that goes into its body whatever the running flag is
TurnAfterAnyway(g, checks) ==
    IF ~g.res.ok THEN Turn(g, FALSE)
    ELSE Turn(RunBody(g.vm, checks), TRUE)

\* the test of the loop of VM::run (line 66) answered g, then the body
TurnAfter(g, checks) ==
    IF ~g.res.ok THEN Turn(g, FALSE)
    ELSE IF ~g.res.val THEN Turn(Return(g.vm, Unit), FALSE)
    ELSE Turn(RunBody(g.vm, checks), TRUE)

\* one turn of the loop of VM::run (lines 66-74)
RunTurn(vm, checks) == TurnAfter(GetRunning(vm), checks)

----------------------------------------------------------------------------
(* The state machine: a caller that owns the VM and calls its methods one  *)
(* at a time.                                                              *)

\* inputs of the calls
Addrs == {PC_START, KB_STATUS_POS, KB_DATA_POS}
WriteAddrs == {PC_START, KB_DATA_POS}
Values == {0, 1, Poison}
Regs == {0, RPC}
FlagRegs == {0}

\* HALT
ProgHalt == <<61477>>
\* LEA R0,+2; PUTS; HALT; "Hi"
ProgHello == <<57346, 61474, 61477, 72, 105>>
\* ADD R0,R0,#1; BRnzp -2
ProgLoop == <<4129, 4094>>
\* NOT R0,R0; JMP R0
ProgWrap == <<36927, 49152>>
\* BRnzp +1; HALT
ProgFall == <<3585, 61477>>
\* a reserved opcode, and the value the failing plugin rejects
ProgBad == <<Poison>>
Programs == {ProgHalt, ProgHello, ProgLoop, ProgWrap, ProgFall, ProgBad}

\* the script of the I/O capability: a key is down and 'q' is read; then no
\* key is down while another character is pending
IOScripts == {NewIO(<<TRUE, FALSE>>, <<113, 8364>>)}

\* the VM as the state holds it, entering a call
Enter ==
    [memory |-> memory, registers |-> registers, running |-> running,
     io_handle |-> io_handle, plugins |-> plugins, added |-> added,
     rounds |-> <<>>, log |-> <<>>, nrounds |-> 0, ndeliv |-> 0, dispatch |-> <<>>]

\* the VM before the call, kept with the call's record
Pre ==
    [memory |-> memory, registers |-> registers, running |-> running,
     io_handle |-> io_handle, plugins |-> plugins]

\* the call `op` with arguments a and v returned, leaving the VM as r.vm
Leave(op, a, v, r) ==
    /\ memory' = r.vm.memory
    /\ registers' = r.vm.registers
    /\ running' = r.vm.running
    /\ io_handle' = r.vm.io_handle
    /\ plugins' = r.vm.plugins
    /\ rounds' = r.vm.rounds
    /\ log' = r.vm.log
    /\ nrounds' = r.vm.nrounds
    /\ ndeliv' = r.vm.ndeliv
    /\ dispatch' = r.vm.dispatch
    /\ added' = r.vm.added
    /\ last' = [op |-> op, a |-> a, v |-> v, res |-> r.res, pre |-> Pre]

\* a panic ends the process
After(r, next) == IF r.res.err = "Panic" THEN "panicked" ELSE next

CanCall == pc = "idle" /\ calls < MaxCalls

Call(op, a, v, r) ==
    /\ CanCall
    /\ Leave(op, a, v, r)
    /\ pc' = After(r, "idle")
    /\ calls' = calls + 1
    /\ UNCHANGED iters

\* VM::new_with_io, then add_plugin for each plugin of `setup`
InitWith(regs, setup) ==
    /\ memory = ZeroMemory
    /\ registers = regs
    /\ running = FALSE
    /\ io_handle \in IOScripts
    /\ plugins = Some(setup)
    /\ pc = "idle"
    /\ calls = 0
    /\ iters = 0
    /\ last = [op |-> "new", a |-> 0, v |-> 0, res |-> Ok(Unit),
               pre |-> [memory |-> memory, registers |-> registers, running |-> running,
                        io_handle |-> io_handle, plugins |-> plugins]]
    /\ added = setup
    /\ rounds = <<>>
    /\ log = <<>>
    /\ nrounds = 0
    /\ ndeliv = 0
    /\ dispatch = <<>>

ZeroRegisters == [i \in 0..(NUM_REGISTERS - 1) |-> 0]

\* VM::new_with_io
Init == InitWith(ZeroRegisters, <<>>)

\* add_plugin is called, with a plugin of a kind not registered before
AddPlugin(kind) ==
    /\ pc = "idle"
    /\ Len(added) < MaxPlugins
    /\ \A i \in 1..Len(added) : added[i] # kind
    /\ Leave("add_plugin", kind, 0, Return(AddPluginTo(RecordAdd(Enter, kind), kind), Unit))
    /\ UNCHANGED <<pc, calls, iters>>

CallMemRead(pos) == Call("mem_read", pos, 0, MemRead(Enter, pos))
CallMemWrite(pos, val) == Call("mem_write", pos, val, MemWrite(Enter, pos, val))
CallRegRead(reg) == Call("reg_read", reg, 0, RegRead(Enter, reg))
CallRegWrite(reg, val) == Call("reg_write", reg, val, RegWrite(Enter, reg, val))
CallGetRunning == Call("get_running", 0, 0, GetRunning(Enter))
CallSetRunning(val) == Call("set_running", 0, val, SetRunning(Enter, val))
CallUpdateFlags(reg) == Call("update_flags", reg, 0, UpdateFlags(Enter, reg))
\* the builds (with and without overflow checks) a call has to be followed
\* in: both when the checked build panics, one when it does not, since
\* without an overflow the two do the same
Builds(checked) == IF checked.res.err = "Panic" THEN BOOLEAN ELSE {TRUE}

LoadCalled(program, checked) ==
    \E checks \in Builds(checked) :
        Call("load_program", program, checks,
             IF checks THEN checked ELSE LoadProgram(Enter, program, FALSE))

CallLoadProgram(program) == LoadCalled(program, LoadProgram(Enter, program, TRUE))

\* run is called: lines 63-64 returned r; on success the loop is entered
RunCalled(r) ==
    /\ CanCall
    /\ Leave("run", 0, 0, r)
    /\ pc' = IF r.res.ok THEN "loop" ELSE "idle"
    /\ calls' = calls + 1
    /\ iters' = 0

CallRun == RunCalled(RunStart(Enter))

\* a turn of run's loop left t; run returns when the turn does not continue
RunStepped(t, checks) ==
    /\ pc = "loop"
    /\ iters < MaxIters
    /\ Leave(IF t.continue THEN "run_turn" ELSE "run_return", registers[RPC], checks, t)
    /\ pc' = After(t, IF t.continue THEN "loop" ELSE "idle")
    /\ iters' = iters + 1
    /\ UNCHANGED calls

RunStepIn(checked) ==
    \E checks \in Builds(checked) :
        RunStepped(IF checks THEN checked ELSE RunTurn(Enter, FALSE), checks)

RunStep == RunStepIn(RunTurn(Enter, TRUE))

Next ==
    \/ \E kind \in PluginKinds : AddPlugin(kind)
    \/ \E pos \in Addrs : CallMemRead(pos)
    \/ \E pos \in WriteAddrs, val \in Values : CallMemWrite(pos, val)
    \/ \E reg \in Regs : CallRegRead(reg)
    \/ \E reg \in Regs, val \in Values : CallRegWrite(reg, val)
    \/ CallGetRunning
    \/ \E val \in BOOLEAN : CallSetRunning(val)
    \/ \E reg \in FlagRegs : CallUpdateFlags(reg)
    \/ \E program \in Programs : CallLoadProgram(program)
    \/ CallRun
    \/ RunStep

Spec == Init /\ [][Next]_vars

----------------------------------------------------------------------------
(* Loading: programs up to and beyond the largest that fits, into a VM     *)
(* whose cells around the loaded range may already hold something.  The    *)
(* two long programs are loaded into a VM that has made no other call and  *)
(* holds at most MaxBigLoadPlugins plugins.                                *)

\* a program of n words, all zero but the first and the last
LongProgram(n) == [i \in 1..n |-> IF i = 1 \/ i = n THEN 1 ELSE 0]

ShortPrograms == {<<>>, <<1>>, <<0, Poison>>}
LongPrograms == {LongProgram(MEMORY_SIZE - PC_START), LongProgram(MEMORY_SIZE - PC_START + 1)}
LoadAddrs == {0, PC_START - 1, PC_START, PC_START + 1, MEMORY_SIZE - 1}

\* the program that is too long is rejected at once, whatever the VM holds
LoadLong(program) ==
    /\ Len(program) > MEMORY_SIZE - PC_START
          \/ (calls = 0 /\ Len(added) <= MaxBigLoadPlugins)
    /\ CallLoadProgram(program)

NextLoad ==
    \/ \E kind \in PluginKinds : AddPlugin(kind)
    \/ \E pos \in LoadAddrs : CallMemWrite(pos, 1)
    \/ \E reg \in Regs : CallRegWrite(reg, 1)
    \/ \E program \in ShortPrograms : CallLoadProgram(program)
    \/ \E program \in LongPrograms : LoadLong(program)

SpecLoad == Init /\ [][NextLoad]_vars

----------------------------------------------------------------------------
(* Flags: update_flags on a register holding any 16-bit value, in a VM     *)
(* without plugins and in one with a writing and an observing plugin.      *)

FlagSetups == {<<>>, <<"Writer", "Observer">>}

InitFlags ==
    \E value \in Word, setup \in FlagSetups :
        InitWith([ZeroRegisters EXCEPT ![0] = value], setup)

NextFlags == \E reg \in FlagRegs : CallUpdateFlags(reg)

SpecFlags == InitFlags /\ [][NextFlags]_vars

----------------------------------------------------------------------------
(* Running: a VM that was constructed, was given its plugins and a         *)
(* program, and is then run, and run again when run has returned.          *)

\* LEA R0,+2; PUTS; HALT; then one word for each character of the string
HelloProgram(string) == <<57346, 61474, 61477>> \o string

\* "", "H", "Hi"
Strings == {<<>>, <<72>>, <<72, 105>>}

RunPrograms == Programs \cup {HelloProgram(string) : string \in Strings}

RunSetups == {<<>>, <<"Observer">>, <<"Failer">>, <<"Writer", "Observer">>,
              <<"Stopper", "Observer">>, <<"Adder">>}

\* what new_with_io returns, after add_plugin for each plugin of `setup`
Fresh(io, setup) ==
    [memory |-> ZeroMemory, registers |-> ZeroRegisters, running |-> FALSE,
     io_handle |-> io, plugins |-> Some(setup), added |-> setup,
     rounds |-> <<>>, log |-> <<>>, nrounds |-> 0, ndeliv |-> 0, dispatch |-> <<>>]

\* load_program(program) has returned r to the VM `fresh`
Loaded(program, fresh, r) ==
    /\ memory = r.vm.memory
    /\ registers = r.vm.registers
    /\ running = r.vm.running
    /\ io_handle = r.vm.io_handle
    /\ plugins = r.vm.plugins
    /\ added = r.vm.added
    /\ rounds = r.vm.rounds
    /\ log = r.vm.log
    /\ nrounds = r.vm.nrounds
    /\ ndeliv = r.vm.ndeliv
    /\ dispatch = r.vm.dispatch
    /\ last = [op |-> "load_program", a |-> program, v |-> TRUE, res |-> r.res,
               pre |-> [memory |-> fresh.memory, registers |-> fresh.registers,
                        running |-> fresh.running, io_handle |-> fresh.io_handle,
                        plugins |-> fresh.plugins]]
    /\ pc = "idle"
    /\ calls = 0
    /\ iters = 0

\* VM::new_with_io, add_plugin, load_program
InitRun ==
    \E io \in IOScripts, program \in RunPrograms, setup \in RunSetups :
        Loaded(program, Fresh(io, setup), LoadProgram(Fresh(io, setup), program, TRUE))

NextRun ==
    \/ CallRun
    \/ RunStep

SpecRun == InitRun /\ [][NextRun]_vars

----------------------------------------------------------------------------
(* Reading a program file (cli::read_program): the file at the path either *)
(* cannot be read or holds a sequence of bytes.                            *)

MaxFileLen == 4

Bytes == {0, 1, 128, 255}

NoFile == [tag |-> "missing", bytes |-> <<>>]
File(bytes) == [tag |-> "file", bytes |-> bytes]

Files == {NoFile} \cup {File(bytes) : bytes \in UNION {[1..n -> Bytes] : n \in 0..MaxFileLen}}

\* std::fs::read(path)
FsRead(file) == IF file.tag = "file" THEN Ok(file.bytes) ELSE Err("Io")

\* bytes.chunks_exact(2): the pairs of the whole chunks, a remainder of
\* one byte left out
ChunksExact2(bytes) ==
    [i \in 1..(Len(bytes) \div 2) |-> <<bytes[2 * i - 1], bytes[2 * i]>>]

\* a.0 << 8 on u16
Shl8(value) == Wrap16(value * 256)

\* |a| a.1 + (a.0 << 8), a being (a[0] as u16, a[1] as u16)
PairToWord(a) == AddU16(a[2], Shl8(a[1])).val

\* cli::read_program, next to a VM it does not touch
ReadProgram(vm, file) ==
    IF ~FsRead(file).ok THEN Fail(vm, "Panic")
    ELSE Return(vm, [i \in 1..Len(ChunksExact2(FsRead(file).val)) |->
                        PairToWord(ChunksExact2(FsRead(file).val)[i])])

CallReadProgram(file) == Call("read_program", file, 0, ReadProgram(Enter, file))

NextRead == \E file \in Files : CallReadProgram(file)

SpecRead == Init /\ [][NextRead]_vars

----------------------------------------------------------------------------
(* What the claims speak of, in terms of the record of the last call       *)

\* the registry as the call found it
PreVec == last.pre.plugins.vec
Attached == last.pre.plugins.tag = "Some"

WriteOps == {"mem_write", "reg_write", "set_running"}
ReadOps == {"mem_read", "reg_read", "get_running"}

\* the event a write call announces
WriteEvent ==
    CASE last.op = "mem_write" -> MemSet(last.a, last.v)
      [] last.op = "reg_write" -> RegSet(last.a, last.v)
      [] last.op = "set_running" -> RunningSet(last.v)

\* the cell a call is about, before the call and after it
OldCell ==
    CASE last.op \in {"mem_write", "mem_read"} -> MemAt(last.pre.memory, last.a)
      [] last.op \in {"reg_write", "reg_read"} -> last.pre.registers[last.a]
      [] last.op \in {"set_running", "get_running"} -> last.pre.running

NewCell ==
    CASE last.op \in {"mem_write", "mem_read"} -> MemAt(memory, last.a)
      [] last.op \in {"reg_write", "reg_read"} -> registers[last.a]
      [] last.op \in {"set_running", "get_running"} -> running

\* the type of the event a read call announces
ReadEventType ==
    CASE last.op = "mem_read" -> "MemGet"
      [] last.op = "reg_read" -> "RegGet"
      [] last.op = "get_running" -> "RunningGet"

Range(seq) == {seq[i] : i \in 1..Len(seq)}

\* the deliveries of round n that the log holds
InRound(n) == {i \in 1..Len(log) : log[i].round = n}

----------------------------------------------------------------------------
(* C1 *)

\* C1 (as claimed): a plugin's own accesses during a round reach no plugin,
\* its nested write is applied, and the next access after the round is
\* announced again.  So after a write accessor returned Ok, every plugin
\* given to add_plugin has received exactly one event, the one of that
\* write; and when a Writer is among them and the write was to register 0,
\* register 1 holds the value the Writer wrote.
C1_NestedSilentThenEventsAgain ==
    (last.op \in WriteOps /\ last.res.ok) =>
        /\ Len(log) = Len(added)
        /\ \A i \in 1..Len(log) : log[i].plugin = i /\ log[i].event = WriteEvent
        /\ (last.op = "reg_write" /\ last.a = 0 /\ "Writer" \in Range(added))
               => registers[1] = last.v

\* the same, for calls that found the registry attached: this part of C1
\* holds
C1_NestedSilentWhileAttached ==
    (last.op \in WriteOps /\ last.res.ok /\ Attached) =>
        /\ Len(log) = Len(PreVec)
        /\ \A i \in 1..Len(log) : log[i].plugin = i /\ log[i].event = WriteEvent
        /\ (last.op = "reg_write" /\ last.a = 0 /\ "Writer" \in Range(PreVec))
               => registers[1] = last.v

----------------------------------------------------------------------------
(* C2 *)

\* C2: a read of the keyboard status address returns 1<<15 when the I/O
\* capability reports a key down, and then the keyboard data cell holds the
\* character taken from the capability; it returns 0 when no key is down,
\* and then the status cell is 0, the data cell is as before and no
\* character was taken.  A read of the data address returns what the data
\* cell holds.
C2_KeyboardStatusRead ==
    /\ (last.op = "mem_read" /\ last.a = KB_STATUS_POS /\ last.res.ok) =>
          IF Head(last.pre.io_handle.keydown_responses)
          THEN /\ last.res.val = 32768
               /\ MemAt(memory, KB_DATA_POS) = Head(last.pre.io_handle.key_presses) % 65536
               /\ io_handle.key_presses = Tail(last.pre.io_handle.key_presses)
          ELSE /\ last.res.val = 0
               /\ MemAt(memory, KB_STATUS_POS) = 0
               /\ MemAt(memory, KB_DATA_POS) = MemAt(last.pre.memory, KB_DATA_POS)
               /\ io_handle.key_presses = last.pre.io_handle.key_presses
    /\ (last.op = "mem_read" /\ last.a = KB_DATA_POS /\ last.res.ok) =>
          last.res.val = MemAt(last.pre.memory, KB_DATA_POS)

\* the status read found a key down and took 'q'; the read of the data
\* address that followed returned it
C2_DataReadReturnsKey ==
    /\ last.op = "mem_read" /\ last.a = KB_DATA_POS /\ last.res.ok
    /\ last.res.val = 113
    /\ MemAt(memory, KB_STATUS_POS) = 32768
    /\ io_handle.key_presses = <<8364>>

----------------------------------------------------------------------------
(* C3 *)

\* C3 (as claimed): during a read of the keyboard status address no plugin
\* is handed the write of 1<<15 to the status cell before it has been
\* handed the write of the data cell.
C3_DataWrittenBeforeStatusReady ==
    last.op = "mem_read" =>
        \A i \in 1..Len(log) :
            (log[i].event.type = "MemSet" /\ log[i].event.location = KB_STATUS_POS
                                          /\ log[i].event.value = 32768)
            => \E j \in 1..(i - 1) :
                   log[j].event.type = "MemSet" /\ log[j].event.location = KB_DATA_POS

\* what the code does: the status write is announced and applied first, the
\* character is taken next and the data cell is written last
C3_StatusWrittenBeforeData ==
    (last.op = "mem_read" /\ last.a = KB_STATUS_POS /\ last.res.ok /\ last.res.val = 32768
        /\ Attached) =>
        rounds = << KeyDownGet(TRUE),
                    MemSet(KB_STATUS_POS, 32768),
                    CharGet(Head(last.pre.io_handle.key_presses)),
                    MemSet(KB_DATA_POS, Head(last.pre.io_handle.key_presses) % 65536),
                    MemGet(KB_STATUS_POS, 32768) >>

----------------------------------------------------------------------------
(* C4, C5 *)

\* the cells that hold something before or after the call
Touched == DOMAIN memory \cup DOMAIN last.pre.memory

\* C4: load_program of a program longer than 65536 - 0x3000 words returns
\* the ProgramSize error, writes no memory cell, changes no register and not
\* the running flag, and hands no event to any plugin.
C4_TooLargeRejectedUntouched ==
    (last.op = "load_program" /\ Len(last.a) > 65536 - 12288) =>
        /\ last.res = Err("ProgramSize")
        /\ memory = last.pre.memory
        /\ registers = last.pre.registers
        /\ running = last.pre.running
        /\ plugins = last.pre.plugins
        /\ nrounds = 0 /\ ndeliv = 0 /\ rounds = <<>> /\ log = <<>>

\* a too long program was refused by a VM that holds a plugin and a word at
\* the start address
C4_RefusedWithMemoryAndPlugin ==
    /\ last.op = "load_program" /\ Len(last.a) = 65536 - 12288 + 1
    /\ last.res = Err("ProgramSize")
    /\ MemAt(memory, 12288) = 1
    /\ plugins = Some(<<"Observer">>)

\* C5: load_program of a program of L <= 65536 - 0x3000 words succeeds
\* unless a plugin fails; after it has succeeded memory[0x3000 + i] is
\* program[i] for every 0 <= i < L, no address having overflowed, and every
\* cell outside [0x3000, 0x3000 + L), every register and the running flag
\* are as before.
C5_LoadWritesProgramOnly ==
    (last.op = "load_program" /\ Len(last.a) <= 65536 - 12288) =>
        /\ last.res.ok \/ last.res.err = "Plugin"
        /\ last.res.err = "Plugin" => "Failer" \in Range(PreVec)
        /\ last.res.ok =>
              /\ \A i \in 1..Len(last.a) :
                     /\ 12288 + (i - 1) < 65536
                     /\ MemAt(memory, 12288 + (i - 1)) = last.a[i]
              /\ \A a \in Touched :
                     (a < 12288 \/ a >= 12288 + Len(last.a))
                         => MemAt(memory, a) = MemAt(last.pre.memory, a)
              /\ registers = last.pre.registers
              /\ running = last.pre.running

\* the longest program that fits was loaded, its last word at 0xFFFF
C5_LongestLoaded ==
    /\ last.op = "load_program" /\ Len(last.a) = 65536 - 12288
    /\ last.res.ok
    /\ MemAt(memory, 65535) = 1 /\ MemAt(memory, 12288) = 1

----------------------------------------------------------------------------
(* C6 *)

\* C6: for every 16-bit value v of a general register r, update_flags(r)
\* leaves the condition register holding exactly one of ZERO, NEGATIVE and
\* POSITIVE: ZERO when v = 0, NEGATIVE when bit 15 of v is set, POSITIVE
\* otherwise; r, the other registers and memory are unchanged.
C6_UpdateFlags ==
    (last.op = "update_flags") =>
        /\ last.res.ok
        /\ registers[9] = (IF last.pre.registers[last.a] = 0 THEN 2
                           ELSE IF last.pre.registers[last.a] >= 32768 THEN 4
                           ELSE 1)
        /\ \A i \in 0..8 : registers[i] = last.pre.registers[i]
        /\ memory = last.pre.memory
        /\ running = last.pre.running

\* update_flags found 0x8000 in register 0 and chose NEGATIVE
C6_SmallestNegative ==
    /\ last.op = "update_flags" /\ last.a = 0
    /\ last.pre.registers[0] = 32768
    /\ registers[9] = 4

----------------------------------------------------------------------------
(* C7 *)

\* the plugins before the i-th delivery's plugin do not write
NoWriterBefore(i) == \A j \in 1..(log[i].plugin - 1) : PreVec[j] # "Writer"

\* C7: a write accessor announces before it writes: the event carries the
\* value about to be written, and the plugin handling it still finds the
\* old value in the cell (unless a plugin before it in the same round has
\* itself written the cell); the value is in the cell once the call has
\* returned Ok.  A read accessor announces after it has fetched: the event
\* carries the value the cell holds, which is the value the call returns.
C7_WriteAnnouncedBeforeReadAfter ==
    /\ last.op \in WriteOps =>
          /\ \A i \in 1..Len(log) :
                 /\ log[i].event = WriteEvent
                 /\ NoWriterBefore(i) => log[i].seen.cell = OldCell
          /\ last.res.ok => NewCell = last.v
    /\ last.op \in ReadOps =>
          \A i \in 1..Len(log) :
              log[i].event.type = ReadEventType =>
                  /\ last.op = "mem_read" => log[i].event.location = last.a
                  /\ last.op = "reg_read" => log[i].event.index = last.a
                  /\ log[i].event.value = log[i].seen.cell
                  /\ last.res.ok => log[i].event.value = last.res.val

\* a plugin handled the event of a mem_write that changed the cell, and
\* found the old value there
C7_OldValueSeen ==
    /\ last.op = "mem_write" /\ last.res.ok
    /\ Len(log) >= 1
    /\ log[1].seen.cell # last.v
    /\ MemAt(memory, last.a) = last.v

----------------------------------------------------------------------------
(* C8 *)

\* the event describes the call: same address or index, same value
Describes(event) ==
    CASE last.op = "mem_write" -> event = MemSet(last.a, last.v)
      [] last.op = "reg_write" -> event = RegSet(last.a, last.v)
      [] last.op = "reg_read" -> event = RegGet(last.a, last.pre.registers[last.a])
      [] last.op = "mem_read" ->
             /\ event.type = "MemGet" /\ event.location = last.a
             /\ last.res.ok => event.value = last.res.val

\* C8 (as claimed): every call of mem_read, mem_write, reg_read or
\* reg_write by the VM's user hands exactly one event describing the
\* access to the plugin bus.
C8_OneEventPerAccess ==
    last.op \in {"mem_read", "mem_write", "reg_read", "reg_write"} =>
        Cardinality({n \in 1..Len(rounds) : Describes(rounds[n])}) = 1

\* the same, for calls that found the registry attached: this holds
C8_OneEventWhileAttached ==
    (last.op \in {"mem_read", "mem_write", "reg_read", "reg_write"} /\ Attached) =>
        Cardinality({n \in 1..Len(rounds) : Describes(rounds[n])}) = 1

----------------------------------------------------------------------------
(* C9 *)

\* the plugins the deliveries of the log went to, in the order of delivery
Receivers == [i \in 1..Len(log) |-> log[i].kind]

\* C9 (as claimed): the event of a write accessor is delivered to every
\* plugin registered with add_plugin, in the order of registration, once
\* each -- here even granting that the delivery ends at a plugin that
\* returns an error.
C9_EveryRegisteredPluginInOrder ==
    (last.op \in WriteOps /\ last.res.err # "Plugin") =>
        /\ Receivers = added
        /\ \A i \in 1..Len(log) : log[i].plugin = i /\ log[i].event = WriteEvent

\* what holds of every round of every call: the plugins of the registry
\* receive the round's event in registration order, each at most once, all
\* of them unless one returns an error, which ends the round and the call
C9_InOrderUntilError ==
    (ndeliv <= LogCap /\ nrounds <= LogCap) =>
        /\ \A i \in 1..Len(log) :
               /\ log[i].plugin \in 1..Len(PreVec)
               /\ log[i].kind = PreVec[log[i].plugin]
               /\ log[i].event = rounds[log[i].round]
               /\ log[i].plugin = (IF i > 1 /\ log[i - 1].round = log[i].round
                                   THEN log[i - 1].plugin + 1 ELSE 1)
               /\ i > 1 => log[i].round \in {log[i - 1].round, log[i - 1].round + 1}
               /\ log[i].plugin < Len(PreVec) =>
                      IF i < Len(log) THEN log[i + 1].round = log[i].round
                      ELSE last.res.err = "Plugin"
        /\ \A n \in 1..nrounds : PreVec # <<>> => InRound(n) # {}

----------------------------------------------------------------------------
(* C10 *)

\* the word dispatched in the turn, and the PC the turn began with
Word1 == dispatch[1].bytes
TurnPC == last.a

\* C10: run sets running to true and the PC to 0x3000; every turn of its
\* loop that reaches an instruction reads the PC p, writes p + 1 and
\* fetches the word at p, so that the handler starts with the PC at p + 1
\* and what it does relative to the PC is on top of the increment: ADD
\* leaves the PC at p + 1, LEA loads p + 1 + offset, BRnzp leaves the PC at
\* p + 1 + offset when a condition flag is set and at p + 1 when none is.
C10_RunFetchesAtOldPC ==
    /\ (last.op = "run" /\ last.res.ok) =>
          running = TRUE /\ registers[8] = 12288
    /\ (last.op \in {"run_turn", "run_return"} /\ dispatch # <<>>) =>
          /\ Len(dispatch) = 1
          /\ Word1 = MemAt(last.pre.memory, TurnPC)
          /\ dispatch[1].pc = (TurnPC + 1) % 65536
          /\ (last.res.ok /\ Word1 \div 4096 = 1) =>
                 registers[8] = (TurnPC + 1) % 65536
          /\ (last.res.ok /\ Word1 \div 4096 = 14) =>
                 registers[(Word1 \div 512) % 8] =
                     (TurnPC + 1 + SignExtend(Word1 % 512, 9)) % 65536
          /\ (last.res.ok /\ Word1 \div 512 = 7) =>
                 registers[8] = (IF last.pre.registers[9] = 0
                                 THEN TurnPC + 1
                                 ELSE TurnPC + 1 + SignExtend(Word1 % 512, 9)) % 65536

\* the second instruction of the loop program, BRnzp -2 at 0x3001, was
\* fetched with the PC at 0x3002 and left it at 0x3000
C10_BranchBackFromSecond ==
    /\ last.op = "run_turn" /\ last.res.ok
    /\ TurnPC = 12288 + 1
    /\ dispatch = <<[bytes |-> 4094, pc |-> 12288 + 2]>>
    /\ registers[8] = 12288

----------------------------------------------------------------------------
(* C11 *)

\* run has returned Ok and left the running flag false
Halted == last.op = "run_return" /\ last.res.ok /\ ~running

\* C11 (as claimed): Halted is terminal: once the VM has halted, no call,
\* a further call of run included, makes the running flag true again or
\* executes another instruction.
C11_HaltedIsTerminal ==
    [][Halted => (~running' /\ dispatch' = <<>>)]_vars

\* what holds: the running flag becomes true only in a call of run, and
\* false only in a turn of run's loop (or by a failing start of run)
C11_OnlyRunStartsOnlyTurnsStop ==
    [][/\ (~running /\ running') => last'.op = "run"
       /\ (running /\ ~running') => last'.op \in {"run", "run_turn", "run_return"}]_vars

----------------------------------------------------------------------------
(* C12 *)

\* the event of the last round the turn started
LastRound == rounds[Len(rounds)]

\* C12: the first error of an accessor, a plugin, the decoding or a handler
\* makes run return that error at once: the turn in which it occurs is
\* run's last, and the loop is only ever in progress after a turn without
\* error.  What was done before the failing step stays done: when the
\* fetch is refused by a plugin, no instruction is dispatched but the PC
\* is already incremented; when the handler fails, the PC is incremented
\* and exactly that one instruction was dispatched.
C12_FirstErrorEndsRun ==
    /\ pc = "loop" => last.res.ok
    /\ (last.op \in {"run_turn", "run_return"} /\ ~last.res.ok) =>
          /\ last.op = "run_return"
          /\ pc \in {"idle", "panicked"}
          /\ Len(dispatch) <= 1
          /\ last.res.err \in {"Unimplemented", "UnknownTrap"} =>
                 /\ Len(dispatch) = 1
                 /\ registers[8] = (last.a + 1) % 65536
          /\ (last.res.err = "Plugin" /\ rounds # <<>> /\ LastRound.type = "MemGet"
                  /\ LastRound.location = last.a) =>
                 /\ dispatch = <<>>
                 /\ registers[8] = (last.a + 1) % 65536
                 /\ memory = last.pre.memory

\* a plugin refused the fetch of the first instruction: run returned its
\* error, the PC stays incremented, nothing was dispatched
C12_FetchRefused ==
    /\ last.op = "run_return" /\ last.res.err = "Plugin"
    /\ last.a = 12288
    /\ registers[8] = 12288 + 1
    /\ dispatch = <<>>
    /\ pc = "idle"

----------------------------------------------------------------------------
(* C13 *)

\* memory holds HelloProgram(string) from the start address on, and a zero
\* after it
HelloLoaded(string) ==
    /\ \A i \in 1..(3 + Len(string)) :
           MemAt(memory, PC_START + (i - 1)) = HelloProgram(string)[i]
    /\ MemAt(memory, PC_START + 3 + Len(string)) = 0

\* the first call of run, by a VM without plugins
FirstPlainRun == added = <<>> /\ calls = 1

\* C13: after load_program of [LEA R0,+2; PUTS; HALT] followed by one word
\* for each character of a string, run comes to an end and returns Ok: it
\* takes three instructions and the turn that finds the running flag
\* false; the characters given to the I/O capability's putchar are the
\* string's, in order, and the running flag is false afterwards.
C13_HelloRuns ==
    \A string \in Strings :
        (FirstPlainRun /\ HelloLoaded(string)) =>
            /\ pc # "panicked"
            /\ pc = "loop" =>
                   /\ iters <= 3
                   /\ last.res.ok
                   /\ \E n \in 0..Len(string) : io_handle.outputs = SubSeq(string, 1, n)
            /\ pc = "idle" =>
                   /\ last.op = "run_return" /\ last.res.ok
                   /\ iters = 4
                   /\ io_handle.outputs = string
                   /\ ~running

\* the program printing "Hi" has run to its end
C13_HiPrinted ==
    /\ FirstPlainRun /\ HelloLoaded(<<72, 105>>)
    /\ last.op = "run_return" /\ last.res.ok
    /\ io_handle.outputs = <<72, 105>>
    /\ ~running

----------------------------------------------------------------------------
(* C14 *)

\* no call is in progress, so no notification round is
Quiet == pc \in {"idle", "loop"}

\* C14 (as claimed): whenever no notification round is in progress the
\* registry is attached: a round that detached it has put it back, with
\* the same plugins in the same order, whether it ended normally or with a
\* plugin's error.
C14_RegistryAttachedOutsideRounds ==
    Quiet =>
        /\ plugins.tag = "Some"
        /\ last.op # "add_plugin" => plugins = last.pre.plugins

\* what holds: the registry is put back by the rounds of a call in which
\* no plugin returns an error, and is lost by a call in which one does
C14_RegistryLostOnlyByPluginError ==
    (Quiet /\ last.op # "add_plugin") =>
        IF last.pre.plugins.tag = "Some" /\ last.res.err = "Plugin"
        THEN plugins = None
        ELSE plugins = last.pre.plugins

----------------------------------------------------------------------------
(* C15 *)

\* the turn began with the PC at 0xFFFF and found the running flag true
TurnAtTop ==
    /\ last.op \in {"run_turn", "run_return"}
    /\ last.a = 65535
    /\ last.pre.running

\* C15 (as claimed): when the PC read at the start of a turn is 0xFFFF, the
\* loop writes 0x0000 to the PC, fetches the instruction at 0xFFFF and
\* goes on; there is no overflow failure.
C15_PCWrapsAtTop ==
    TurnAtTop =>
        /\ last.res.err # "Panic"
        /\ pc # "panicked"
        /\ Len(dispatch) = 1
        /\ dispatch[1] = [bytes |-> MemAt(last.pre.memory, 65535), pc |-> 0]

\* what holds: a build without overflow checks wraps as claimed, a build
\* with them panics before the PC is written or anything is fetched
C15_WrapsOrPanicsByBuild ==
    TurnAtTop =>
        IF last.v
        THEN /\ last.res.err = "Panic" /\ pc = "panicked"
             /\ dispatch = <<>>
             /\ registers[8] = 65535
        ELSE /\ last.res.ok
             /\ dispatch = <<[bytes |-> MemAt(last.pre.memory, 65535), pc |-> 0]>>

----------------------------------------------------------------------------
(* C16 *)

\* C16 (as claimed): no reaction of a plugin during the round of a write
\* accessor stops or changes the write: after mem_write(a, v),
\* reg_write(r, v) or set_running(b) the cell holds the value written.
C16_WriteNotIntercepted ==
    last.op \in WriteOps => NewCell = last.v

\* what holds: a plugin that writes the cell itself does not change the
\* outcome, the accessor's write coming last; a plugin that returns an
\* error stops the write, which is then never made
C16_OnlyAnErrorStopsTheWrite ==
    last.op \in WriteOps =>
        IF last.res.ok
        THEN NewCell = last.v
        ELSE /\ last.res.err = "Plugin"
             /\ "Failer" \in Range(PreVec)
             /\ \/ NewCell = OldCell
                \/ "Writer" \in Range(PreVec)

----------------------------------------------------------------------------
(* C17 *)

\* the rounds of the turn that announce a reading of the running flag
RunningChecks == {n \in 1..Len(rounds) : rounds[n].type = "RunningGet"}

\* C17: a turn of run's loop reads the running flag once, before anything
\* else.  A turn that finds it false returns Ok from run without reading or
\* writing the PC and without fetching; an instruction is dispatched only
\* in a turn that found it true.  When the flag becomes false during an
\* instruction, the instruction is still carried out (ADD R0,R0,#1 adds
\* its 1) and the turn ends as any other; it is the next turn's reading
\* that ends run.
C17_RunningReadOncePerTurn ==
    (last.op \in {"run_turn", "run_return"} /\ nrounds <= LogCap) =>
        /\ rounds # <<>> => rounds[1] = RunningGet(last.pre.running)
        /\ Cardinality(RunningChecks) <= 1
        /\ ~last.pre.running =>
               /\ last.op = "run_return" /\ last.res.ok
               /\ pc = "idle"
               /\ dispatch = <<>>
               /\ nrounds <= 1
               /\ registers = last.pre.registers
               /\ memory = last.pre.memory
               /\ io_handle = last.pre.io_handle
        /\ dispatch # <<>> => last.pre.running
        /\ (last.pre.running /\ ~running /\ last.res.ok) =>
               /\ last.op = "run_turn"
               /\ pc = "loop"
               /\ Len(dispatch) = 1
               /\ Word1 = 4129 => registers[0] = (last.pre.registers[0] + 1) % 65536

\* a plugin set the running flag to false while ADD R0,R0,#1 was being
\* announced: the addition was made and the turn ended with run going on
C17_StoppedDuringAdd ==
    /\ last.op = "run_turn" /\ last.res.ok
    /\ last.pre.running /\ ~running
    /\ dispatch = <<[bytes |-> 4129, pc |-> 12288 + 1]>>
    /\ registers[0] = 1
    /\ pc = "loop"

\* the turn after the flag became false ended run without touching the PC
C17_ReturnedAtNextCheck ==
    /\ last.op = "run_return" /\ last.res.ok
    /\ ~last.pre.running
    /\ dispatch = <<>>
    /\ registers[8] = last.a

----------------------------------------------------------------------------
(* C18 *)

\* C18 (as claimed, for an attached registry): the registry holds every
\* plugin that was passed to add_plugin, in the order of the calls, the
\* calls made by a plugin's handler during a notification round included.
\* (added is the list of the plugins passed to add_plugin so far.)
C18_RegistryHoldsEveryPluginAdded ==
    (Quiet /\ plugins.tag = "Some") => plugins.vec = added

\* C18 (as claimed, in full): outside a round the registry is the list of
\* the plugins passed to add_plugin: none is dropped, none is refused
C18_RegistryIsAppendOnly ==
    Quiet => plugins = Some(added)

\* what holds: add_plugin appends to an attached registry and does nothing
\* when the registry is detached (during a round, or after a plugin's
\* error has lost it)
C18_AppendsOnlyWhenAttached ==
    last.op = "add_plugin" =>
        plugins = IF Attached THEN Some(Append(PreVec, last.a)) ELSE None

\* what holds: an attached registry is a prefix of the list of the plugins
\* passed to add_plugin, and the calls of a run never extend it
C18_RegistryIsPrefixOfAdded ==
    (Quiet /\ plugins.tag = "Some") =>
        /\ Len(plugins.vec) <= Len(added)
        /\ plugins.vec = SubSeq(added, 1, Len(plugins.vec))
        /\ last.op \in {"run_turn", "run_return"} => plugins = last.pre.plugins

----------------------------------------------------------------------------
(* C19 *)

\* the five events run announces up to the dispatch of the word at p
TurnEvents(p, word) ==
    <<RunningGet(TRUE), RegGet(RPC, p), RegSet(RPC, Wrap16(p + 1)),
      MemGet(p, word), CommandEvent(word)>>

\* the deliveries of the turn's Command round
CommandDeliveries == {i \in 1..Len(log) : log[i].event.type = "Command"}

\* C19: in a turn of run that carries out an instruction fetched at p (not
\* the keyboard status address) the rounds begin with RunningGet(true),
\* RegGet(PC, p), RegSet(PC, p + 1), MemGet(p, word), Command(word), in
\* this order; Command(word) is announced once, carries the word that is
\* dispatched, goes to every plugin of the registry, and the first plugin
\* that receives it finds memory, registers and output as they were before
\* the turn but for the PC: whatever the opcode handler announces or
\* changes comes after the fifth round.  With no registry attached nothing
\* is announced at all.
C19_CommandAnnouncedBeforeHandler ==
    (last.op \in {"run_turn", "run_return"} /\ dispatch # <<>>
        /\ TurnPC # KB_STATUS_POS) =>
        IF Attached
        THEN /\ Len(rounds) >= 5
             /\ SubSeq(rounds, 1, 5) = TurnEvents(TurnPC, Word1)
             /\ \A n \in 6..Len(rounds) : rounds[n].type # "Command"
             /\ \A i \in CommandDeliveries : log[i].round = 5
             /\ {log[i].plugin : i \in InRound(5)} = 1..Len(PreVec)
             /\ \A i \in CommandDeliveries :
                    log[i].plugin = 1 =>
                        /\ log[i].seen.cell.memory = last.pre.memory
                        /\ log[i].seen.cell.outputs = last.pre.io_handle.outputs
                        /\ log[i].seen.cell.running
                        /\ log[i].seen.cell.registers =
                               [last.pre.registers EXCEPT ![RPC] = Wrap16(TurnPC + 1)]
        ELSE rounds = <<>> /\ log = <<>>

\* PUTS was announced to an observer before it printed: the observer saw
\* the output still empty at the Command event, the handler's own events
\* followed the fifth round, and the string is out when the turn ends
C19_PutsAnnouncedThenPrinted ==
    /\ last.op = "run_turn" /\ last.res.ok
    /\ PreVec = <<"Observer">> /\ Attached
    /\ dispatch = <<[bytes |-> 61474, pc |-> Wrap16(TurnPC + 1)]>>
    /\ Len(rounds) > 5
    /\ rounds[5] = CommandEvent(61474)
    /\ \E i \in CommandDeliveries : log[i].seen.cell.outputs = <<>>
    /\ io_handle.outputs = <<72, 105>>

----------------------------------------------------------------------------
(* C20 *)

\* the bytes of the file read_program was called on
FileBytes == last.a.bytes

\* the result is the big-endian decoding of the first 2n bytes
DecodedBigEndian(n) ==
    /\ last.res.ok
    /\ Len(last.res.val) = n
    /\ \A i \in 1..n :
           last.res.val[i] = FileBytes[2 * i - 1] * 256 + FileBytes[2 * i]

\* C20 (as claimed): read_program on a file of 2n bytes returns the n words
\* word[i] = byte[2i] * 256 + byte[2i+1] (counting from 0), and a file of
\* odd length is not accepted: no program comes out of it.
C20_EvenDecodedOddRefused ==
    (last.op = "read_program" /\ last.a.tag = "file") =>
        IF Len(FileBytes) % 2 = 0
        THEN DecodedBigEndian(Len(FileBytes) \div 2)
        ELSE ~last.res.ok

\* what holds: the whole pairs of bytes are decoded big-endian whatever the
\* length is, a last odd byte is left out without any report, and only a
\* file that cannot be read ends the call, by a panic
C20_DecodesWholePairs ==
    last.op = "read_program" =>
        IF last.a.tag = "file"
        THEN DecodedBigEndian(Len(FileBytes) \div 2)
        ELSE last.res.err = "Panic" /\ pc = "panicked"

\* a file of three bytes came out as a program of one word
C20_OddFileAccepted ==
    /\ last.op = "read_program"
    /\ FileBytes = <<1, 0, 255>>
    /\ last.res.ok /\ last.res.val = <<256>>

====
